---- MODULE Spec2Model ----
(***************************************************************************)
(* Forex arbitrage detection: the quote store of ForexSubscriber           *)
(* (lab3.py), the Bellman-Ford engine BellmandFord (bellman_ford.py) and   *)
(* the quote decoder (fxp_bytes_subscriber.py).                            *)
(*                                                                         *)
(* Representation.                                                         *)
(*   - A Python dict is a sequence of <<key, value>> pairs with distinct   *)
(*     keys, in insertion order (the order the code iterates it in).       *)
(*   - A timestamp is a multiple of 1.5 s, the unit of time, so that       *)
(*     STALE_QUOTE_DEF (1.5 s) is 1.                                       *)
(*   - An exchange rate is a number of hundredths (79 is 0.79).            *)
(*   - A weight or distance is a fixed-point number of 1e-8 units, so the  *)
(*     default tolerance 1e-8 is 1; float("Inf") is the sentinel INF that  *)
(*     no arithmetic is applied to.                                        *)
(***************************************************************************)
EXTENDS Integers, Sequences, FiniteSets, TLC

VARIABLES
    pc,                 \* position in _subscribe, or the last call of a harness
    err,                \* the exception that ended the run, "none" if none
    data,               \* the records of the datagram being processed
    curr_time,          \* argument of the _clean_stale_quotes call just made
    published_quotes,   \* ForexSubscriber._published_quotes
    latest_timestamp,   \* ForexSubscriber._latest_timestamp
    graph,              \* BellmandFord._graph
    distance,           \* BellmandFord._distance
    predecessor,        \* BellmandFord._predecessor
    tolerance,          \* BellmandFord._tolerance
    start_vertex,       \* argument of the last shortest_paths call
    neg_cycle,          \* result of the last get_negative_cycle call
    prev_run,           \* the run that the last reset ended: start, tolerance, maps
    message,            \* receive buffer given to _unmarshal_message
    decoded,            \* records _unmarshal_message has printed
    swept,              \* the start currencies _check_for_arbitrages has run, in order
    curr_value          \* curr_value at the end of _report_arbitrage, a fraction

vars == <<pc, err, data, curr_time, published_quotes, latest_timestamp, graph,
          distance, predecessor, tolerance, start_vertex, neg_cycle, prev_run,
          message, decoded, swept, curr_value>>

storeVars == <<data, curr_time, published_quotes, latest_timestamp>>
engineVars == <<graph, distance, predecessor, tolerance, start_vertex,
                neg_cycle, prev_run>>
codecVars == <<message, decoded>>
sweepVars == <<swept, curr_value>>

----------------------------------------------------------------------------
(* Program constants *)

STALE_QUOTE_DEF == 1
DEFAULT_START_CURR_VAL == 100
INF == 2000000000
DefaultTolerance == 1
MESSAGE_SIZE == 32
NoTimestamp == -1
NoTolerance == -1
None == "None"

(* Bounds *)

MaxTime == 2
MaxBatch == 2
MaxQuotes == 3

----------------------------------------------------------------------------
(* Python dict, insertion ordered *)

EmptyDict == << >>

DictKeys(d) == { d[i][1] : i \in DOMAIN d }

DictHas(d, k) == \E i \in DOMAIN d : d[i][1] = k

DictGet(d, k) == d[CHOOSE i \in DOMAIN d : d[i][1] = k][2]

DictSet(d, k, v) ==
    IF DictHas(d, k)
    THEN [d EXCEPT ![CHOOSE i \in DOMAIN d : d[i][1] = k] = <<k, v>>]
    ELSE Append(d, <<k, v>>)

DictDel(d, k) == SelectSeq(d, LAMBDA p : p[1] # k)

(* A dict that is only looked up by key, never iterated: a function *)
EmptyMap == [k \in {} |-> None]

MapHas(m, k) == k \in DOMAIN m

MapSet(m, k, v) ==
    IF k \in DOMAIN m THEN [m EXCEPT ![k] = v] ELSE (k :> v) @@ m

(* Every (curr1, curr2, value) of a nested dict, in iteration order *)
RECURSIVE Items(_)
Items(d) ==
    IF d = << >> THEN << >>
    ELSE [j \in DOMAIN d[1][2] |-> <<d[1][1], d[1][2][j][1], d[1][2][j][2]>>]
         \o Items(Tail(d))

----------------------------------------------------------------------------
(* Quote store: lab3.py *)

QuoteData(timestamp, exch_rate) ==
    [timestamp |-> timestamp, exch_rate |-> exch_rate]

PublishedQuote(timestamp, curr1, curr2, rate) ==
    [timestamp |-> timestamp, curr1 |-> curr1, curr2 |-> curr2, rate |-> rate]

(* Mutant: no record is taken as out of sequence *)
OutOfSequenceNever(latest, timestamp) == FALSE

(* Mutant: a record as old as the watermark is taken as out of sequence *)
OutOfSequenceOrEqual(latest, timestamp) == latest >= timestamp

(* "Ignore quotes that have a time stamp smaller than latest" *)
OutOfSequence(latest, timestamp) == latest > timestamp

(* The for loop of _update_published_quotes, from record i on *)
RECURSIVE UpdateLoop(_, _, _, _)
UpdateLoop(quotes, latest, batch, i) ==
    IF i > Len(batch) THEN [quotes |-> quotes, latest |-> latest]
    ELSE LET q == batch[i] IN
         IF OutOfSequence(latest, q.timestamp)
         THEN UpdateLoop(quotes, latest, batch, i + 1)
         ELSE LET outer == IF DictHas(quotes, q.curr1) THEN quotes
                           ELSE DictSet(quotes, q.curr1, EmptyDict)
                  inner == DictSet(DictGet(outer, q.curr1), q.curr2,
                                   QuoteData(q.timestamp, q.rate))
              IN UpdateLoop(DictSet(outer, q.curr1, inner), q.timestamp,
                            batch, i + 1)

(* _update_published_quotes: published_quotes[0] of an empty list raises *)
UpdatePublishedQuotesResult(quotes, latest, batch) ==
    IF latest = NoTimestamp /\ batch = << >>
    THEN [quotes |-> quotes, latest |-> latest, err |-> "IndexError"]
    ELSE LET first == IF latest = NoTimestamp THEN batch[1].timestamp
                      ELSE latest
             r == UpdateLoop(quotes, first, batch, 1)
         IN [quotes |-> r.quotes, latest |-> r.latest, err |-> "none"]

(* Mutant: a quote of age STALE_QUOTE_DEF is taken as stale *)
IsStaleOrEqual(ref_time, timestamp) == ref_time - timestamp >= STALE_QUOTE_DEF

IsStale(ref_time, timestamp) == ref_time - timestamp > STALE_QUOTE_DEF

(* The loop body of _clean_stale_quotes over the items of the deep copy:
   a stale entry is deleted from the inner dict, the outer key stays *)
RECURSIVE CleanLoop(_, _, _, _)
CleanLoop(quotes, ref_items, ref_time, i) ==
    IF i > Len(ref_items) THEN quotes
    ELSE LET curr1 == ref_items[i][1]
             curr2 == ref_items[i][2]
             timestamp == ref_items[i][3].timestamp
         IN IF IsStale(ref_time, timestamp)
            THEN CleanLoop(DictSet(quotes, curr1,
                                   DictDel(DictGet(quotes, curr1), curr2)),
                           ref_items, ref_time, i + 1)
            ELSE CleanLoop(quotes, ref_items, ref_time, i + 1)

CleanStaleQuotesResult(quotes, ref_time) ==
    CleanLoop(quotes, Items(quotes), ref_time, 1)

----------------------------------------------------------------------------
(* Graph builder: bellman_ford.py *)

(* math.log of a rate given in hundredths, in 1e-8 units; it raises
   ValueError for a rate that is not positive *)
LogDefined(rate) == rate > 0

Log(rate) ==
    CASE rate = 50  -> -69314718
      [] rate = 100 -> 0
      [] rate = 200 -> 69314718
      [] rate = 75  -> -28768207
      [] rate = 79  -> -23572233
      [] rate = 80  -> -22314355
      [] rate = 83  -> -18632958
      [] rate = 333 -> 120297230

(* Mutant: the reverse edge is not written *)
AddQuoteEdgesOneWay(g, curr1, curr2, exch_rate) ==
    LET g1 == IF DictHas(g, curr1) THEN g ELSE DictSet(g, curr1, EmptyDict)
        g2 == IF DictHas(g1, curr2) THEN g1 ELSE DictSet(g1, curr2, EmptyDict)
    IN DictSet(g2, curr1, DictSet(DictGet(g2, curr1), curr2, -1 * Log(exch_rate)))

(* Mutant: the reverse edge gets the weight of the forward one *)
AddQuoteEdgesSameSign(g, curr1, curr2, exch_rate) ==
    LET g1 == IF DictHas(g, curr1) THEN g ELSE DictSet(g, curr1, EmptyDict)
        g2 == IF DictHas(g1, curr2) THEN g1 ELSE DictSet(g1, curr2, EmptyDict)
        g3 == DictSet(g2, curr1,
                      DictSet(DictGet(g2, curr1), curr2, -1 * Log(exch_rate)))
    IN DictSet(g3, curr2,
               DictSet(DictGet(g3, curr2), curr1, -1 * Log(exch_rate)))

(* The body of the loops of _construct_graph for one quote *)
AddQuoteEdges(g, curr1, curr2, exch_rate) ==
    LET g1 == IF DictHas(g, curr1) THEN g ELSE DictSet(g, curr1, EmptyDict)
        g2 == IF DictHas(g1, curr2) THEN g1 ELSE DictSet(g1, curr2, EmptyDict)
        g3 == DictSet(g2, curr1,
                      DictSet(DictGet(g2, curr1), curr2, -1 * Log(exch_rate)))
    IN DictSet(g3, curr2, DictSet(DictGet(g3, curr2), curr1, Log(exch_rate)))

RECURSIVE ConstructLoop(_, _, _)
ConstructLoop(g, items, i) ==
    IF i > Len(items) THEN [graph |-> g, err |-> "none"]
    ELSE IF ~LogDefined(items[i][3].exch_rate)
         THEN [graph |-> EmptyDict, err |-> "ValueError"]
         ELSE ConstructLoop(AddQuoteEdges(g, items[i][1], items[i][2],
                                          items[i][3].exch_rate),
                            items, i + 1)

(* _construct_graph *)
ConstructGraph(quotes) == ConstructLoop(EmptyDict, Items(quotes), 1)

(* The vertices and the edges (u, v, weight) of a graph *)
Vertices(g) == DictKeys(g)

Edges(g) == Items(g)

HasEdge(g, u, v) == DictHas(g, u) /\ DictHas(DictGet(g, u), v)

Weight(g, u, v) == DictGet(DictGet(g, u), v)

----------------------------------------------------------------------------
(* Shortest-path engine: bellman_ford.py *)

(* float addition and comparison with float("Inf") *)
FloatAdd(a, w) == IF a = INF THEN INF ELSE a + w

(* (prev - new) > tol:  x - Inf and Inf - Inf (nan) compare False *)
ExceedsBy(prev, new, tol) ==
    IF new = INF THEN FALSE
    ELSE IF prev = INF THEN TRUE
    ELSE prev - new > tol

(* _initialize_vertex_data *)
RECURSIVE InitLoop(_, _, _)
InitLoop(st, g, i) ==
    IF i > Len(g) THEN st
    ELSE InitLoop([distance |-> MapSet(st.distance, g[i][1], INF),
                   predecessor |-> MapSet(st.predecessor, g[i][1], None)],
                  g, i + 1)

(* Mutant: the predecessors of an earlier run are left in place *)
InitializeVertexDataLeavePredecessor(dist, pred, g, start) ==
    LET st == InitLoop([distance |-> dist, predecessor |-> pred], g, 1)
    IN [distance |-> MapSet(st.distance, start, 0),
        predecessor |-> IF DOMAIN pred = {} THEN st.predecessor ELSE pred]

(* Mutant: a vertex that has an entry already keeps it *)
InitializeVertexDataKeep(dist, pred, g, start) ==
    LET st == IF DOMAIN dist = {}
              THEN InitLoop([distance |-> dist, predecessor |-> pred], g, 1)
              ELSE [distance |-> dist, predecessor |-> pred]
    IN [distance |-> MapSet(st.distance, start, 0),
        predecessor |-> st.predecessor]

InitializeVertexData(dist, pred, g, start) ==
    LET st == InitLoop([distance |-> dist, predecessor |-> pred], g, 1)
    IN [distance |-> MapSet(st.distance, start, 0),
        predecessor |-> st.predecessor]

(* _distance_improved, for the edge curr1 -> curr2 of weight w *)
DistanceImproved(dist, tol, curr1, curr2, w) ==
    ExceedsBy(dist[curr2], FloatAdd(dist[curr1], w), tol)

(* Mutant: an edge out of a vertex that was not reached is relaxed too *)
ShouldRelaxFromUnreached(dist, tol, curr1, curr2, w) ==
    \/ dist[curr2] = INF
    \/ DistanceImproved(dist, tol, curr1, curr2, w)

(* _should_relax *)
ShouldRelax(dist, tol, curr1, curr2, w) ==
    \/ dist[curr1] # INF /\ dist[curr2] = INF
    \/ DistanceImproved(dist, tol, curr1, curr2, w)

(* The visit of one edge in _relax_edges; w is graph[curr1][curr2] *)
RelaxEdge(st, tol, curr1, curr2, w) ==
    IF ShouldRelax(st.distance, tol, curr1, curr2, w)
    THEN [distance |-> MapSet(st.distance, curr2,
                              FloatAdd(st.distance[curr1], w)),
          predecessor |-> MapSet(st.predecessor, curr2, curr1)]
    ELSE st

RECURSIVE RelaxPass(_, _, _, _)
RelaxPass(st, tol, edges, i) ==
    IF i > Len(edges) THEN st
    ELSE IF ShouldRelax(st.distance, tol, edges[i][1], edges[i][2],
                        edges[i][3])
         THEN RelaxPass(RelaxEdge(st, tol, edges[i][1], edges[i][2],
                                  edges[i][3]),
                        tol, edges, i + 1)
         ELSE RelaxPass(st, tol, edges, i + 1)

RECURSIVE RelaxPasses(_, _, _, _)
RelaxPasses(st, tol, edges, n) ==
    IF n <= 0 THEN st
    ELSE RelaxPasses(RelaxPass(st, tol, edges, 1), tol, edges, n - 1)

(* Mutant: one pass fewer *)
RelaxEdgesOnePassFewer(st, g, tol) ==
    RelaxPasses(st, tol, Edges(g), Len(g) - 2)

(* _relax_edges: len(graph) - 1 passes over the edges in dict order *)
RelaxEdges(st, g, tol) == RelaxPasses(st, tol, Edges(g), Len(g) - 1)

(* shortest_paths *)
ShortestPathsResult(dist, pred, g, start, tol) ==
    RelaxEdges(InitializeVertexData(dist, pred, g, start), g, tol)

----------------------------------------------------------------------------
(* Cycle extractor: bellman_ford.py *)

KeyError == "KeyError"

(* Mutant: the walk starts at the vertex the probe found *)
FollowPredecessorNot(pred, v, n) == v

(* for _ in range(len(graph)): start_vertex = predecessor[start_vertex] *)
RECURSIVE FollowPredecessor(_, _, _)
FollowPredecessor(pred, v, n) ==
    IF n = 0 THEN v
    ELSE IF ~MapHas(pred, v) THEN KeyError
    ELSE FollowPredecessor(pred, pred[v], n - 1)

(* Mutant: the walk ends before the second visit of start is appended *)
RECURSIVE WalkCycleOpen(_, _, _, _, _)
WalkCycleOpen(pred, start, cycle, next_curr, fuel) ==
    IF next_curr = start /\ Len(cycle) >= 1
    THEN [kind |-> "return", cycle |-> cycle]
    ELSE IF ~MapHas(pred, next_curr) THEN [kind |-> KeyError, cycle |-> << >>]
    ELSE IF fuel = 0 THEN [kind |-> "NoReturn", cycle |-> << >>]
    ELSE WalkCycleOpen(pred, start, Append(cycle, next_curr),
                       pred[next_curr], fuel - 1)

(* The while loop of _identify_neg_cycle.  It ends at the second visit of
   start; a walk longer than the predecessor map has entries is in a cycle
   that start is not on, and never ends. *)
RECURSIVE WalkCycle(_, _, _, _, _)
WalkCycle(pred, start, cycle, next_curr, fuel) ==
    LET appended == Append(cycle, next_curr) IN
    IF next_curr = start /\ Len(appended) > 1
    THEN [kind |-> "return", cycle |-> appended]
    ELSE IF ~MapHas(pred, next_curr) THEN [kind |-> KeyError, cycle |-> << >>]
    ELSE IF fuel = 0 THEN [kind |-> "NoReturn", cycle |-> << >>]
    ELSE WalkCycle(pred, start, appended, pred[next_curr], fuel - 1)

Reverse(seq) == [i \in DOMAIN seq |-> seq[Len(seq) + 1 - i]]

AllEdges(g, cycle) ==
    \A i \in 1 .. Len(cycle) - 1 : HasEdge(g, cycle[i], cycle[i + 1])

RECURSIVE WeightSum(_, _, _)
WeightSum(g, cycle, idx) ==
    IF idx >= Len(cycle) THEN 0
    ELSE Weight(g, cycle[idx], cycle[idx + 1]) + WeightSum(g, cycle, idx + 1)

(* "Ensure that weighted sum is negative" *)
Accepted(weight_sum, tol) == weight_sum <= -1 * tol

(* _identify_neg_cycle *)
IdentifyNegCycle(pred, g, tol, curr) ==
    LET landed == FollowPredecessor(pred, curr, Len(g)) IN
    IF landed = KeyError THEN [kind |-> KeyError, cycle |-> << >>]
    ELSE LET walk == WalkCycle(pred, landed, << >>, landed,
                                   Cardinality(DOMAIN pred) + 1) IN
         IF walk.kind # "return" THEN walk
         ELSE LET cycle == Reverse(walk.cycle) IN
              IF ~AllEdges(g, cycle) THEN [kind |-> KeyError, cycle |-> << >>]
              ELSE IF Accepted(WeightSum(g, cycle, 1), tol)
                   THEN [kind |-> "return", cycle |-> cycle]
                   ELSE [kind |-> "return", cycle |-> << >>]

(* distance[curr2] < distance[curr1] + weight, on floats *)
FloatLess(a, b) == a # INF /\ (b = INF \/ a < b)

(* The condition get_negative_cycle starts an extraction on, for the edge
   curr1 -> curr2 of weight w *)
Probe(dist, curr1, curr2, w) ==
    /\ dist[curr1] # INF
    /\ FloatLess(dist[curr2], FloatAdd(dist[curr1], w))

(* The edge scan of get_negative_cycle, from edge i on: the result of the
   first extraction that does not raise KeyError, else the empty list *)
RECURSIVE ScanEdges(_, _, _, _, _, _)
ScanEdges(dist, pred, g, tol, edges, i) ==
    IF i > Len(edges) THEN [kind |-> "return", cycle |-> << >>]
    ELSE IF Probe(dist, edges[i][1], edges[i][2], edges[i][3])
         THEN LET r == IdentifyNegCycle(pred, g, tol, edges[i][2]) IN
              IF r.kind = KeyError
              THEN ScanEdges(dist, pred, g, tol, edges, i + 1)
              ELSE r
         ELSE ScanEdges(dist, pred, g, tol, edges, i + 1)

(* The edges, by their place in the scan, at which get_negative_cycle calls
   _identify_neg_cycle(curr2), from edge i on: the scan ends at the first
   call that returns *)
RECURSIVE ExtractionStarts(_, _, _, _, _, _)
ExtractionStarts(dist, pred, g, tol, edges, i) ==
    IF i > Len(edges) THEN {}
    ELSE IF Probe(dist, edges[i][1], edges[i][2], edges[i][3])
         THEN IF IdentifyNegCycle(pred, g, tol, edges[i][2]).kind = KeyError
              THEN {i} \cup ExtractionStarts(dist, pred, g, tol, edges, i + 1)
              ELSE {i}
         ELSE ExtractionStarts(dist, pred, g, tol, edges, i + 1)

(* get_negative_cycle *)
GetNegativeCycleResult(dist, pred, g, tol) ==
    ScanEdges(dist, pred, g, tol, Edges(g), 1)

----------------------------------------------------------------------------
(* Reporting: lab3.py *)

HasQuote(quotes, src_curr, dest_curr) ==
    DictHas(quotes, src_curr) /\ DictHas(DictGet(quotes, src_curr), dest_curr)

(* _get_exchange_rate: the rate of (src, dest), else the rate of (dest, src)
   as it is stored; KeyError when neither is stored *)
GetExchangeRate(quotes, src_curr, dest_curr) ==
    IF HasQuote(quotes, src_curr, dest_curr)
    THEN DictGet(DictGet(quotes, src_curr), dest_curr).exch_rate
    ELSE DictGet(DictGet(quotes, dest_curr), src_curr).exch_rate

(* curr_value is held as a fraction in lowest terms *)
RECURSIVE Gcd(_, _)
Gcd(a, b) == IF b = 0 THEN a ELSE Gcd(b, a % b)

Fraction(num, den) ==
    LET g == Gcd(num, den) IN [num |-> num \div g, den |-> den \div g]

Product(x, y) ==
    LET g1 == Gcd(x.num, y.den)
        g2 == Gcd(y.num, x.den)
    IN [num |-> (x.num \div g1) * (y.num \div g2),
        den |-> (x.den \div g2) * (y.den \div g1)]

(* value * exch_rate, the rate given in hundredths *)
Multiplied(value, exch_rate) == Product(value, Fraction(exch_rate, 100))

Greater(x, y) == x.num * y.den > y.num * x.den

(* The for loop of _report_arbitrage from step idx on:
   curr_value *= self._get_exchange_rate(curr_currency, next_currency) *)
RECURSIVE ReportLoop(_, _, _, _)
ReportLoop(quotes, negative_cycle, value, idx) ==
    IF idx >= Len(negative_cycle) THEN value
    ELSE ReportLoop(quotes, negative_cycle,
                    Multiplied(value,
                               GetExchangeRate(quotes, negative_cycle[idx],
                                               negative_cycle[idx + 1])),
                    idx + 1)

(* _report_arbitrage: the last curr_value *)
ReportArbitrageResult(quotes, negative_cycle) ==
    ReportLoop(quotes, negative_cycle, Fraction(DEFAULT_START_CURR_VAL, 1), 1)

(* The last curr_value of _report_arbitrage exceeds the starting one *)
ReportsProfit(quotes, negative_cycle) ==
    Greater(ReportArbitrageResult(quotes, negative_cycle),
            Fraction(DEFAULT_START_CURR_VAL, 1))

----------------------------------------------------------------------------
(* Quote decoder: fxp_bytes_subscriber.py *)

(* message[a:b] *)
Slice(m, a, b) ==
    IF a >= Len(m) THEN << >>
    ELSE SubSeq(m, a + 1, IF b < Len(m) THEN b ELSE Len(m))

(* _deserialize_message for the 8-byte typecodes 'Q' and 'd': frombytes
   raises ValueError unless the length is a multiple of 8, arr[0] raises
   IndexError on no bytes; the value is kept as its bytes *)
DeserializeError(bytes) ==
    IF Len(bytes) % 8 # 0 THEN "ValueError"
    ELSE IF Len(bytes) = 0 THEN "IndexError"
    ELSE "none"

(* The body of the loop of _unmarshal_message for the slice curr_msg *)
DecodeRecord(curr_msg) ==
    LET timestamp == Slice(curr_msg, 0, 8)
        exch_rate == Slice(curr_msg, 14, 22)
    IN IF DeserializeError(timestamp) # "none"
       THEN [err |-> DeserializeError(timestamp), record |-> << >>]
       ELSE IF DeserializeError(exch_rate) # "none"
            THEN [err |-> DeserializeError(exch_rate), record |-> << >>]
            ELSE [err |-> "none",
                  record |-> <<timestamp, Slice(curr_msg, 8, 11),
                               Slice(curr_msg, 11, 14), exch_rate>>]

(* for idx in range(0, len(message), MESSAGE_SIZE), from idx on; out is what
   has been printed so far *)
RECURSIVE UnmarshalLoop(_, _, _)
UnmarshalLoop(m, idx, out) ==
    IF idx >= Len(m) THEN [err |-> "none", records |-> out]
    ELSE LET r == DecodeRecord(Slice(m, idx, idx + MESSAGE_SIZE)) IN
         IF r.err # "none" THEN [err |-> r.err, records |-> out]
         ELSE UnmarshalLoop(m, idx + MESSAGE_SIZE, Append(out, r.record))

(* _unmarshal_message *)
UnmarshalMessage(m) == UnmarshalLoop(m, 0, << >>)

----------------------------------------------------------------------------
(* Inputs *)

USD == "USD"
GBP == "GBP"
CAD == "CAD"
AUD == "AUD"

Currencies == {USD, GBP, CAD, AUD}
FeedCurrencies == {USD, GBP}
FeedRates == {50, 200}
Times == 0 .. MaxTime

Records ==
    { PublishedQuote(t, c1, c2, r) :
        t \in Times, c1 \in FeedCurrencies, c2 \in FeedCurrencies, r \in FeedRates }

FeedRecords == { q \in Records : q.curr1 # q.curr2 }

SeqsUpTo(S, n) == UNION { [1 .. k -> S] : k \in 0 .. n }

Batches == SeqsUpTo(FeedRecords, MaxBatch)

(* Quote stores the engine is built from: up to MaxQuotes quotes of distinct
   ordered pairs, stored by _update_published_quotes in any order *)
EngineCurrencies == {USD, GBP, CAD}
EngineRates == {50, 100, 200}

EngineRecords(currencies) ==
    { PublishedQuote(0, c1, c2, r) :
        c1 \in currencies, c2 \in currencies, r \in EngineRates }

QuoteListsOver(currencies, n) ==
    { l \in SeqsUpTo({ q \in EngineRecords(currencies) : q.curr1 # q.curr2 }, n) :
        \A i, j \in DOMAIN l :
            i # j => ~(l[i].curr1 = l[j].curr1 /\ l[i].curr2 = l[j].curr2) }

QuoteLists ==
    QuoteListsOver(EngineCurrencies, MaxQuotes)
    \cup QuoteListsOver(Currencies, MaxQuotes - 1)

StoreOf(l) == UpdateLoop(EmptyDict, 0, l, 1).quotes

ScenarioQuotes ==
    << PublishedQuote(0, USD, GBP, 79), PublishedQuote(0, GBP, CAD, 83),
       PublishedQuote(0, CAD, AUD, 333), PublishedQuote(0, AUD, USD, 75) >>

(* CAD -> AUD is quoted, USD -> GBP at 0.80 comes 3 s later, and the stale
   quote is evicted: the key CAD stays in the store with no quote under it *)
EarlierQuotes ==
    << PublishedQuote(0, CAD, AUD, 200),
       PublishedQuote(STALE_QUOTE_DEF + 1, USD, GBP, 80) >>

SingleQuoteStore ==
    LET r == UpdatePublishedQuotesResult(EmptyDict, NoTimestamp, EarlierQuotes)
    IN CleanStaleQuotesResult(r.quotes, r.latest)

(* A negative cycle USD -> GBP -> AUD -> USD with CAD beside it, joined to
   two of its vertices *)
DetourQuotes ==
    << PublishedQuote(0, GBP, CAD, 50), PublishedQuote(0, USD, GBP, 200),
       PublishedQuote(0, CAD, USD, 50), PublishedQuote(0, AUD, USD, 200),
       PublishedQuote(0, AUD, GBP, 50) >>

(* USD and GBP quoted both ways at rates that are not reciprocal, on a
   triangle with CAD *)
BothWaysQuotes ==
    << PublishedQuote(0, USD, GBP, 50), PublishedQuote(0, GBP, USD, 50),
       PublishedQuote(0, GBP, CAD, 200), PublishedQuote(0, CAD, USD, 200) >>

Stores ==
    { StoreOf(l) : l \in QuoteLists
                         \cup {ScenarioQuotes, DetourQuotes, BothWaysQuotes} }
    \cup {SingleQuoteStore}

Tolerances == {DefaultTolerance}

(* Tolerances for the runs that are given one: the default, 0.5 and 1.5 *)
AnyTolerances == {DefaultTolerance, 50000000, 150000000}

----------------------------------------------------------------------------
(* Initial values *)

NoRun == [start |-> None, tolerance |-> NoTolerance,
          distance |-> EmptyMap, predecessor |-> EmptyMap]

StoreInit ==
    /\ data = << >>
    /\ curr_time = NoTimestamp
    /\ published_quotes = EmptyDict
    /\ latest_timestamp = NoTimestamp

EngineIdle ==
    /\ graph = EmptyDict
    /\ distance = EmptyMap
    /\ predecessor = EmptyMap
    /\ tolerance = NoTolerance
    /\ start_vertex = None
    /\ neg_cycle = << >>
    /\ prev_run = NoRun

CodecIdle ==
    /\ message = << >>
    /\ decoded = << >>

(* No sweep has run and nothing was reported *)
NoValue == [num |-> 0, den |-> 1]

SweepIdle ==
    /\ swept = << >>
    /\ curr_value = NoValue

----------------------------------------------------------------------------
(* StoreSpec: the quote-store methods of ForexSubscriber, called with any
   batch and any reference time, in any order *)

StoreSpecInit ==
    /\ pc = "constructed"
    /\ err = "none"
    /\ StoreInit
    /\ EngineIdle
    /\ CodecIdle
    /\ SweepIdle

UpdatePublishedQuotesCall ==
    /\ err = "none"
    /\ \E batch \in Batches :
          LET r == UpdatePublishedQuotesResult(published_quotes,
                                               latest_timestamp, batch)
          IN /\ data' = batch
             /\ published_quotes' = r.quotes
             /\ latest_timestamp' = r.latest
             /\ err' = r.err
    /\ curr_time' = NoTimestamp
    /\ pc' = "updated"
    /\ UNCHANGED <<engineVars, codecVars, sweepVars>>

CleanStaleQuotesCall ==
    /\ err = "none"
    /\ \E t \in Times :
          /\ curr_time' = t
          /\ published_quotes' = CleanStaleQuotesResult(published_quotes, t)
    /\ data' = << >>
    /\ pc' = "cleaned"
    /\ UNCHANGED <<err, latest_timestamp, engineVars, codecVars, sweepVars>>

StoreSpecNext == UpdatePublishedQuotesCall \/ CleanStaleQuotesCall

StoreSpec == StoreSpecInit /\ [][StoreSpecNext]_vars

----------------------------------------------------------------------------
(* The entries of a quote store, without their order *)

Entries(quotes) ==
    { [curr1 |-> it[1], curr2 |-> it[2],
       timestamp |-> it[3].timestamp, exch_rate |-> it[3].exch_rate] :
        it \in { Items(quotes)[i] : i \in DOMAIN Items(quotes) } }

(* The watermark rule, one record at a time: st is [entries, watermark] *)
WatermarkRule(st, q) ==
    IF st.watermark # NoTimestamp /\ q.timestamp < st.watermark
    THEN st
    ELSE [entries |->
             { e \in st.entries : ~(e.curr1 = q.curr1 /\ e.curr2 = q.curr2) }
             \cup { [curr1 |-> q.curr1, curr2 |-> q.curr2,
                     timestamp |-> q.timestamp, exch_rate |-> q.rate] },
          watermark |-> q.timestamp]

RECURSIVE WatermarkFold(_, _, _)
WatermarkFold(st, batch, i) ==
    IF i > Len(batch) THEN st
    ELSE WatermarkFold(WatermarkRule(st, batch[i]), batch, i + 1)

(* C1: a call of _update_published_quotes that returns leaves the store and
   the watermark as the watermark rule, applied to the records one at a time
   in array order, leaves them: the first record ever seen is accepted, a
   later one is rejected exactly when its timestamp is below the watermark at
   that moment, and an accepted one becomes the watermark and the (A,B)
   entry. *)
C1_WatermarkRule ==
    [][ (pc' = "updated" /\ err' = "none") =>
          LET st == WatermarkFold([entries |-> Entries(published_quotes),
                                   watermark |-> latest_timestamp], data', 1)
          IN /\ Entries(published_quotes') = st.entries
             /\ latest_timestamp' = st.watermark ]_vars

(* A batch [t2, t1] with t1 < t2 after a first record: t2 is stored, t1 is not *)
C1_Witness ==
    /\ pc = "updated"
    /\ err = "none"
    /\ Len(data) = 2
    /\ data[2].timestamp < data[1].timestamp
    /\ latest_timestamp = data[1].timestamp
    /\ data[1].curr1 # data[2].curr1
    /\ \E e \in Entries(published_quotes) :
          /\ e.curr1 = data[1].curr1 /\ e.curr2 = data[1].curr2
          /\ e.timestamp = data[1].timestamp
    /\ \E e \in Entries(published_quotes) :
          /\ e.curr1 = data[2].curr1 /\ e.curr2 = data[2].curr2
          /\ e.timestamp < data[2].timestamp

(* C2: after _clean_stale_quotes(curr_time), an entry of the store before the
   call is in the store exactly when curr_time minus its timestamp is at most
   STALE_QUOTE_DEF, with the timestamp and rate it had; no entry is added. *)
C2_Eviction ==
    [][ pc' = "cleaned" =>
          Entries(published_quotes') =
             { e \in Entries(published_quotes) :
                  curr_time' - e.timestamp <= STALE_QUOTE_DEF } ]_vars

(* One entry was evicted (its key is left with an empty dict) and one of age
   exactly STALE_QUOTE_DEF is kept *)
C2_Witness ==
    /\ pc = "cleaned"
    /\ \E i \in DOMAIN published_quotes : published_quotes[i][2] = EmptyDict
    /\ \E e \in Entries(published_quotes) :
          curr_time - e.timestamp = STALE_QUOTE_DEF

----------------------------------------------------------------------------
(* EngineSpec: a BellmandFord built from a quote store, then shortest_paths
   from any vertex of the graph, get_negative_cycle after a run, and reset,
   in any order *)

EngineSpecInit ==
    /\ \E quotes \in Stores :
          LET built == ConstructGraph(quotes)
          IN /\ published_quotes = quotes
             /\ graph = built.graph
             /\ err = built.err
    /\ pc = "constructed"
    /\ data = << >>
    /\ curr_time = NoTimestamp
    /\ latest_timestamp = NoTimestamp
    /\ distance = EmptyMap
    /\ predecessor = EmptyMap
    /\ tolerance = NoTolerance
    /\ start_vertex = None
    /\ neg_cycle = << >>
    /\ prev_run = NoRun
    /\ CodecIdle
    /\ SweepIdle

ShortestPaths ==
    /\ err = "none"
    /\ \E start \in Vertices(graph), tol \in Tolerances :
          LET st == ShortestPathsResult(distance, predecessor, graph, start, tol)
          IN /\ tolerance' = tol
             /\ start_vertex' = start
             /\ distance' = st.distance
             /\ predecessor' = st.predecessor
    /\ neg_cycle' = << >>
    /\ prev_run' = IF pc = "reset" THEN prev_run ELSE NoRun
    /\ pc' = "relaxed"
    /\ UNCHANGED <<err, graph, storeVars, codecVars, sweepVars>>

GetNegativeCycle ==
    /\ err = "none"
    /\ pc \in {"relaxed", "probed"}
    /\ LET r == GetNegativeCycleResult(distance, predecessor, graph, tolerance)
       IN /\ neg_cycle' = r.cycle
          /\ err' = IF r.kind = "return" THEN "none" ELSE r.kind
    /\ prev_run' = NoRun
    /\ pc' = "probed"
    /\ UNCHANGED <<graph, distance, predecessor, tolerance, start_vertex,
                   storeVars, codecVars, sweepVars>>

Reset ==
    /\ err = "none"
    /\ pc \in {"relaxed", "probed"}
    /\ prev_run' = [start |-> start_vertex, tolerance |-> tolerance,
                    distance |-> distance, predecessor |-> predecessor]
    /\ distance' = EmptyMap
    /\ predecessor' = EmptyMap
    /\ tolerance' = NoTolerance
    /\ start_vertex' = None
    /\ neg_cycle' = << >>
    /\ pc' = "reset"
    /\ UNCHANGED <<err, graph, storeVars, codecVars, sweepVars>>

EngineSpecNext == ShortestPaths \/ GetNegativeCycle \/ Reset

EngineSpec == EngineSpecInit /\ [][EngineSpecNext]_vars

----------------------------------------------------------------------------
(* Paths and cycles of a graph, from its definition *)

Distinct(p) == \A i, j \in DOMAIN p : i # j => p[i] # p[j]

SimplePaths(g) ==
    { p \in SeqsUpTo(Vertices(g), Len(g)) :
        Len(p) >= 1 /\ Distinct(p) /\ AllEdges(g, p) }

(* The vertices the paths of ps that start at u end at *)
EndsFrom(ps, u) == { p[Len(p)] : p \in { q \in ps : q[1] = u } }

Reachable(g, u) == EndsFrom(SimplePaths(g), u)

(* The least weight of the paths of ps from u to v *)
MinimumWeight(g, ps, u, v) ==
    LET ws == { WeightSum(g, p, 1) :
                  p \in { q \in ps : q[1] = u /\ q[Len(q)] = v } }
    IN CHOOSE w \in ws : \A x \in ws : w <= x

(* The simple cycles that the paths of ps close, first vertex repeated *)
CyclesOf(g, ps) ==
    { Append(p, p[1]) :
        p \in { q \in ps : Len(q) >= 2 /\ HasEdge(g, q[Len(q)], q[1]) } }

(* A cycle of weight below bound through a vertex reachable from u *)
CycleBelowReachable(g, u, bound) ==
    LET ps == SimplePaths(g)
        reach == EndsFrom(ps, u)
    IN \E c \in CyclesOf(g, ps) : c[1] \in reach /\ WeightSum(g, c, 1) < bound

(* C3: when no cycle of negative weight is reachable from the start vertex,
   after shortest_paths every vertex reachable from it has the minimum path
   weight as distance, every other vertex has distance INF, and
   get_negative_cycle returns the empty list. *)
C3_NoNegativeCycle ==
    (/\ err = "none"
     /\ pc \in {"relaxed", "probed"}
     /\ ~CycleBelowReachable(graph, start_vertex, 0))
    => LET ps == SimplePaths(graph)
           reach == EndsFrom(ps, start_vertex)
       IN /\ \A v \in Vertices(graph) :
               distance[v] = IF v \in reach
                             THEN MinimumWeight(graph, ps, start_vertex, v)
                             ELSE INF
          /\ pc = "probed" => neg_cycle = << >>

(* No negative cycle is in reach, a vertex was reached over another one, and
   no cycle is reported *)
C3_Witness ==
    /\ err = "none"
    /\ pc = "probed"
    /\ ~CycleBelowReachable(graph, start_vertex, 0)
    /\ neg_cycle = << >>
    /\ \E v \in Vertices(graph) :
          /\ predecessor[v] # None
          /\ predecessor[v] # start_vertex
          /\ distance[v] # 0

(* Part of a graph is out of reach of the start vertex and keeps INF *)
C3_WitnessUnreachable ==
    /\ err = "none"
    /\ pc = "probed"
    /\ \E v \in Vertices(graph) : distance[v] = INF

(* C4 as stated: when a cycle of weight below -tolerance is reachable from
   the start vertex, get_negative_cycle returns a non-empty list with equal
   first and last elements and weight sum at most -tolerance. *)
C4_NegativeCycleFound ==
    (/\ err = "none"
     /\ pc = "probed"
     /\ CycleBelowReachable(graph, start_vertex, -1 * tolerance))
    => /\ neg_cycle # << >>
       /\ neg_cycle[1] = neg_cycle[Len(neg_cycle)]
       /\ AllEdges(graph, neg_cycle)
       /\ WeightSum(graph, neg_cycle, 1) <= -1 * tolerance

(* C5: shortest_paths(start, tolerance), then reset, then the same call again
   gives the distance and predecessor maps of the first run, whatever other
   runs came before the first one. *)
C5_Idempotent ==
    [][ (/\ pc = "reset"
         /\ pc' = "relaxed"
         /\ start_vertex' = prev_run.start
         /\ tolerance' = prev_run.tolerance)
        => /\ distance' = prev_run.distance
           /\ predecessor' = prev_run.predecessor ]_vars

(* The second run has given the maps of the first, in which a vertex was
   reached over another one *)
C5_Witness ==
    /\ pc = "relaxed"
    /\ prev_run.start = start_vertex
    /\ prev_run.distance = distance
    /\ prev_run.predecessor = predecessor
    /\ \E v \in Vertices(graph) :
          predecessor[v] # None /\ predecessor[v] # start_vertex

(* C7 as stated: every stored quote (A, B, rate) has its edge A -> B of weight
   -ln(rate) and its edge B -> A of weight ln(rate) in the graph built. *)
C7_EveryQuoteBothEdges ==
    err = "none" =>
       \A e \in Entries(published_quotes) :
          /\ HasEdge(graph, e.curr1, e.curr2)
          /\ Weight(graph, e.curr1, e.curr2) = -1 * Log(e.exch_rate)
          /\ HasEdge(graph, e.curr2, e.curr1)
          /\ Weight(graph, e.curr2, e.curr1) = Log(e.exch_rate)

(* C7, amended: a stored quote (A, B, rate) has its two edges in the graph
   built unless the store holds (B, A) too and iterates it later; of two
   such quotes the later one sets both weights. *)
C7_LastQuoteBothEdges ==
    err = "none" =>
       LET items == Items(published_quotes) IN
       \A i \in DOMAIN items :
          (\A j \in DOMAIN items :
              j > i => ~(items[j][1] = items[i][2] /\ items[j][2] = items[i][1]))
          => /\ HasEdge(graph, items[i][1], items[i][2])
             /\ Weight(graph, items[i][1], items[i][2])
                   = -1 * Log(items[i][3].exch_rate)
             /\ HasEdge(graph, items[i][2], items[i][1])
             /\ Weight(graph, items[i][2], items[i][1])
                   = Log(items[i][3].exch_rate)

(* A graph built from a store that holds (A, B) and (B, A) at rates that are
   not reciprocal *)
C7_Witness ==
    /\ err = "none"
    /\ graph # EmptyDict
    /\ \E e, f \in Entries(published_quotes) :
          /\ e.curr1 = f.curr2
          /\ e.curr2 = f.curr1
          /\ Log(e.exch_rate) + Log(f.exch_rate) # 0

----------------------------------------------------------------------------
(* LoopSpec: ForexSubscriber from its construction on, one action for each
   call of the loop of _subscribe *)

LoopRates == {0, 50, 200}

LoopRecords ==
    { PublishedQuote(t, c1, c2, r) :
        t \in Times, c1 \in FeedCurrencies, c2 \in FeedCurrencies, r \in LoopRates }

(* Quotes of two markets that no quote joins *)
TwoMarketsQuotes ==
    << PublishedQuote(0, USD, GBP, 50), PublishedQuote(0, CAD, AUD, 50) >>

Datagrams ==
    SeqsUpTo({ q \in LoopRecords : q.curr1 # q.curr2 }, MaxBatch)
    \cup {ScenarioQuotes, TwoMarketsQuotes}

LoopSpecInit ==
    /\ pc = "recv"
    /\ err = "none"
    /\ StoreInit
    /\ EngineIdle
    /\ CodecIdle
    /\ SweepIdle

(* data = self._listener_sock.recv(...); unmarshal_message(data) *)
Recv ==
    /\ pc = "recv"
    /\ \E d \in Datagrams : data' = d
    /\ pc' = "update"
    /\ UNCHANGED <<err, curr_time, published_quotes, latest_timestamp,
                   engineVars, codecVars, sweepVars>>

(* recv raises socket.timeout after SUB_TIMEOUT *)
RecvTimeout ==
    /\ pc = "recv"
    /\ err' = "timeout"
    /\ pc' = "crashed"
    /\ UNCHANGED <<storeVars, engineVars, codecVars, sweepVars>>

(* self._update_published_quotes(published_quotes) *)
UpdatePublishedQuotes ==
    /\ pc = "update"
    /\ LET r == UpdatePublishedQuotesResult(published_quotes,
                                            latest_timestamp, data)
       IN /\ published_quotes' = r.quotes
          /\ latest_timestamp' = r.latest
          /\ err' = r.err
          /\ pc' = IF r.err = "none" THEN "check" ELSE "crashed"
    /\ UNCHANGED <<data, curr_time, engineVars, codecVars, sweepVars>>

(* self._check_for_arbitrages(), and self._clean_stale_quotes(...) when it
   returns.  _check_for_arbitrages builds the graph (math.log raises
   ValueError on a rate that is not positive), runs shortest_paths from the
   first key of the store, and calls get_negative_cycle(currency): the method
   takes no argument (bellman_ford.py line 196), so the call raises TypeError
   and the rest of the sweep is never run.  With no key in the store the
   loop body is not entered. *)
CheckForArbitrages ==
    /\ pc = "check"
    /\ LET built == ConstructGraph(published_quotes) IN
       IF built.err # "none"
       THEN /\ err' = built.err
            /\ pc' = "crashed"
            /\ swept' = << >>
            /\ UNCHANGED <<storeVars, engineVars>>
       ELSE IF published_quotes = EmptyDict
       THEN /\ graph' = built.graph
            /\ distance' = EmptyMap
            /\ predecessor' = EmptyMap
            /\ tolerance' = NoTolerance
            /\ curr_time' = latest_timestamp
            /\ published_quotes' =
                  CleanStaleQuotesResult(published_quotes, latest_timestamp)
            /\ pc' = "recv"
            /\ swept' = << >>
            /\ UNCHANGED <<err, data, latest_timestamp, start_vertex,
                           neg_cycle, prev_run>>
       ELSE LET currency == published_quotes[1][1]
                st == ShortestPathsResult(EmptyMap, EmptyMap, built.graph,
                                          currency, DefaultTolerance)
            IN /\ graph' = built.graph
               /\ tolerance' = DefaultTolerance
               /\ start_vertex' = currency
               /\ distance' = st.distance
               /\ predecessor' = st.predecessor
               /\ swept' = <<currency>>
               /\ err' = "TypeError"
               /\ pc' = "crashed"
               /\ UNCHANGED <<storeVars, neg_cycle, prev_run>>
    /\ UNCHANGED <<codecVars, curr_value>>

LoopSpecNext ==
    Recv \/ RecvTimeout \/ UpdatePublishedQuotes \/ CheckForArbitrages

LoopSpec == LoopSpecInit /\ [][LoopSpecNext]_vars

(* C8 as stated: the eviction comes before the detection sweep, so that when
   the sweep builds its graph no stored quote is older than the watermark by
   more than STALE_QUOTE_DEF. *)
C8_NoStaleQuoteAtSweep ==
    pc = "check" =>
       \A e \in Entries(published_quotes) :
          latest_timestamp - e.timestamp <= STALE_QUOTE_DEF

(* C9 as stated: no quote of a rate that is not positive is in the store,
   and none ends the loop. *)
C9_NoNonPositiveRate ==
    /\ \A e \in Entries(published_quotes) : e.exch_rate > 0
    /\ err # "ValueError"

ScenarioStore == StoreOf(ScenarioQuotes)

ScenarioCycles ==
    { <<USD, GBP, CAD, AUD, USD>>, <<GBP, CAD, AUD, USD, GBP>>,
      <<CAD, AUD, USD, GBP, CAD>>, <<AUD, USD, GBP, CAD, AUD>> }

(* C10 as stated: once the sweep has run on the store of the four scenario
   quotes, it has returned the cycle USD, GBP, CAD, AUD, USD or a rotation of
   it, and the value compounded along it exceeds the starting value. *)
C10_ScenarioCycleReported ==
    (published_quotes = ScenarioStore /\ pc \in {"recv", "crashed"})
    => /\ neg_cycle \in ScenarioCycles
       /\ ReportsProfit(published_quotes, neg_cycle)

(* C18 as stated: the store update on a datagram of no record leaves the
   quote store and the watermark as they were, raises nothing, and the loop
   goes on. *)
C18_EmptyDatagramHarmless ==
    [][ (pc = "update" /\ data = << >>)
        => /\ published_quotes' = published_quotes
           /\ latest_timestamp' = latest_timestamp
           /\ err' = "none"
           /\ pc' = "check" ]_vars

(* C16 as stated: when a sweep has ended with no cycle accepted,
   shortest_paths has run from a vertex of every connected part of the graph
   that has an edge; a sweep in which a cycle was returned ran no start after
   the one that gave it. *)
C16_EveryComponentStarted ==
    (pc \in {"recv", "crashed"} /\ err \in {"none", "TypeError"}
       /\ graph # EmptyDict)
    => /\ neg_cycle = << >>
          => \A v \in Vertices(graph) :
                \E i \in DOMAIN swept : swept[i] \in Reachable(graph, v)
       /\ neg_cycle # << >> => start_vertex = swept[Len(swept)]

----------------------------------------------------------------------------
(* CodecSpec: _unmarshal_message on a receive buffer of up to MaxRecords
   records and a partial one *)

MaxRecords == 2
ByteValues == {1, 2}

(* A buffer of full records, each of one byte value, and of tail more bytes *)
RECURSIVE BufferOf(_, _)
BufferOf(tags, tail) ==
    IF tags = << >> THEN [i \in 1 .. tail |-> 1]
    ELSE [i \in 1 .. MESSAGE_SIZE |-> tags[1]] \o BufferOf(Tail(tags), tail)

Buffers ==
    { BufferOf(tags, tail) :
        tags \in SeqsUpTo(ByteValues, MaxRecords), tail \in 0 .. MESSAGE_SIZE - 1 }

CodecSpecInit ==
    /\ pc = "received"
    /\ err = "none"
    /\ StoreInit
    /\ EngineIdle
    /\ message \in Buffers
    /\ decoded = << >>
    /\ SweepIdle

Unmarshal ==
    /\ pc = "received"
    /\ LET r == UnmarshalMessage(message)
       IN /\ decoded' = r.records
          /\ err' = r.err
    /\ pc' = "decoded"
    /\ UNCHANGED <<message, storeVars, engineVars, sweepVars>>

CodecSpecNext == Unmarshal

CodecSpec == CodecSpecInit /\ [][CodecSpecNext]_vars

(* C6 as stated: decoding a buffer of N bytes does not fail and gives the
   Len(message) \div 32 full records of the buffer, in buffer order. *)
C6_FloorRecords ==
    pc = "decoded" =>
       /\ err = "none"
       /\ Len(decoded) = Len(message) \div MESSAGE_SIZE
       /\ \A i \in DOMAIN decoded :
             decoded[i] =
                DecodeRecord(Slice(message, (i - 1) * MESSAGE_SIZE,
                                   i * MESSAGE_SIZE)).record

----------------------------------------------------------------------------
(* The single-quote scenario *)

(* C11 as stated: with USD -> GBP at 0.80 the only live quote and CAD, AUD
   quoted earlier and evicted, after shortest_paths(USD) the distances of USD
   and GBP are finite, CAD and AUD are in the distance map at INF, and no
   cycle is reported. *)
C11_SingleQuote ==
    (/\ published_quotes = SingleQuoteStore
     /\ err = "none"
     /\ pc \in {"relaxed", "probed"}
     /\ start_vertex = USD)
    => /\ \A c \in {USD, GBP} : MapHas(distance, c) /\ distance[c] # INF
       /\ \A c \in {CAD, AUD} : MapHas(distance, c) /\ distance[c] = INF
       /\ pc = "probed" => neg_cycle = << >>

----------------------------------------------------------------------------
(* The relaxation rule *)

(* One visit of the edge u -> v of weight w by the rule: v is given the
   distance of u plus w and the predecessor u exactly when the distance of u
   is finite and that of v is infinite or improves by more than tol *)
RuleVisit(st, tol, u, v, w) ==
    IF /\ st.distance[u] # INF
       /\ \/ st.distance[v] = INF
          \/ st.distance[v] - (st.distance[u] + w) > tol
    THEN [distance |-> [st.distance EXCEPT ![v] = st.distance[u] + w],
          predecessor |-> [st.predecessor EXCEPT ![v] = u]]
    ELSE st

(* The visits k, k + 1, ... up to n of the passes over edges, all the edges
   in order in each pass, none left out *)
RECURSIVE RuleVisits(_, _, _, _, _)
RuleVisits(st, tol, edges, k, n) ==
    IF k > n THEN st
    ELSE LET e == edges[((k - 1) % Len(edges)) + 1]
         IN RuleVisits(RuleVisit(st, tol, e[1], e[2], e[3]), tol, edges,
                       k + 1, n)

(* C12: shortest_paths leaves the distance and predecessor maps that
   |V| - 1 passes over all the edges give, each visit of an edge following
   the relaxation rule and touching no other vertex, with no pass left out. *)
C12_RelaxationRule ==
    [][ pc' = "relaxed"
        => LET edges == Edges(graph)
               passes == Cardinality(Vertices(graph)) - 1
               st == RuleVisits(InitializeVertexData(distance, predecessor,
                                                     graph, start_vertex'),
                                tolerance', edges, 1, passes * Len(edges))
           IN /\ distance' = st.distance
              /\ predecessor' = st.predecessor ]_vars

(* A run in which a vertex was reached over another one and a visit of an
   edge between two reached vertices left its target as it was *)
C12_Witness ==
    /\ pc = "relaxed"
    /\ \E v \in Vertices(graph) : predecessor[v] \notin {None, start_vertex}
    /\ \E i \in DOMAIN Edges(graph) :
          LET e == Edges(graph)[i]
          IN /\ distance[e[1]] # INF
             /\ distance[e[2]] # INF
             /\ predecessor[e[2]] # e[1]
             /\ distance[e[2]] - (distance[e[1]] + e[3]) <= tolerance

----------------------------------------------------------------------------
(* The detection probe *)

(* The edge u -> v of weight w violates the relaxation invariant by more
   than tol *)
Violates(dist, tol, u, v, w) ==
    /\ dist[u] # INF
    /\ dist[v] = INF \/ dist[v] > dist[u] + w + tol

ViolatedInto(v) ==
    \E j \in DOMAIN Edges(graph) :
       LET e == Edges(graph)[j]
       IN e[2] = v /\ Violates(distance, tolerance, e[1], e[2], e[3])

(* C13 as stated: get_negative_cycle starts an extraction from a vertex only
   if an edge into it violates the relaxation invariant by more than the
   tolerance, it returns the empty list when no edge does, and so a cycle
   that is returned comes with a violated edge. *)
C13_ProbeIsViolation ==
    (pc = "probed" /\ err = "none")
    => LET edges == Edges(graph)
           starts == ExtractionStarts(distance, predecessor, graph,
                                      tolerance, edges, 1)
       IN /\ \A i \in starts : ViolatedInto(edges[i][2])
          /\ (\A v \in Vertices(graph) : ~ViolatedInto(v)) => neg_cycle = << >>
          /\ neg_cycle # << >> => \E v \in Vertices(graph) : ViolatedInto(v)

----------------------------------------------------------------------------
(* ToleranceSpec: a BellmandFord built from a quote store, then
   shortest_paths from any vertex with any tolerance on the new or reset
   engine, get_negative_cycle after the run, and reset *)

ShortestPathsWithTolerance ==
    /\ err = "none"
    /\ pc \in {"constructed", "reset"}
    /\ \E start \in Vertices(graph), tol \in AnyTolerances :
          LET st == ShortestPathsResult(distance, predecessor, graph, start, tol)
          IN /\ tolerance' = tol
             /\ start_vertex' = start
             /\ distance' = st.distance
             /\ predecessor' = st.predecessor
    /\ neg_cycle' = << >>
    /\ prev_run' = NoRun
    /\ pc' = "relaxed"
    /\ UNCHANGED <<err, graph, storeVars, codecVars, sweepVars>>

ToleranceSpecNext == ShortestPathsWithTolerance \/ GetNegativeCycle \/ Reset

ToleranceSpec == EngineSpecInit /\ [][ToleranceSpecNext]_vars

(* C14: the list get_negative_cycle returns is empty, or it has at least 3
   entries, the first equal to the last, the others pairwise distinct, each
   consecutive pair an edge of the graph, and a weight sum of at most
   -tolerance. *)
C14_SoundCycle ==
    (pc = "probed" /\ err = "none" /\ neg_cycle # << >>)
    => /\ Len(neg_cycle) >= 3
       /\ neg_cycle[1] = neg_cycle[Len(neg_cycle)]
       /\ Distinct(SubSeq(neg_cycle, 1, Len(neg_cycle) - 1))
       /\ AllEdges(graph, neg_cycle)
       /\ WeightSum(graph, neg_cycle, 1) <= -1 * tolerance

(* A cycle was returned from a run with a tolerance above the default *)
C14_Witness ==
    /\ pc = "probed"
    /\ err = "none"
    /\ neg_cycle # << >>
    /\ tolerance > DefaultTolerance

----------------------------------------------------------------------------
(* Termination of the extraction *)

(* The k-th predecessor of v, None from the first vertex without one on *)
RECURSIVE NthPredecessor(_, _)
NthPredecessor(v, k) ==
    IF k = 0 THEN v
    ELSE LET u == NthPredecessor(v, k - 1)
         IN IF u \in DOMAIN predecessor THEN predecessor[u] ELSE None

OnPredecessorCycle(v) ==
    \E k \in 1 .. Len(graph) : NthPredecessor(v, k) = v

(* C15: for every vertex get_negative_cycle passes to _identify_neg_cycle
   after a run of shortest_paths, either the chain of predecessors from it
   comes to a vertex without predecessor within |V| steps and the call
   raises KeyError, or the |V|-th predecessor is on a cycle of predecessors
   and the call returns, its walk having come back within |V| steps. *)
C15_ExtractionTerminates ==
    (pc \in {"relaxed", "probed"} /\ err = "none")
    => LET edges == Edges(graph)
           starts == ExtractionStarts(distance, predecessor, graph,
                                      tolerance, edges, 1)
       IN \A i \in starts :
             LET v == edges[i][2]
                 landed == NthPredecessor(v, Len(graph))
                 r == IdentifyNegCycle(predecessor, graph, tolerance, v)
             IN \/ /\ \E k \in 0 .. Len(graph) : NthPredecessor(v, k) = None
                   /\ r.kind = KeyError
                \/ /\ \A k \in 0 .. Len(graph) : NthPredecessor(v, k) # None
                   /\ OnPredecessorCycle(landed)
                   /\ r.kind = "return"

(* An extraction was started from a vertex that is on no cycle of
   predecessors but leads into one, and it has returned that cycle *)
C15_Witness ==
    /\ pc = "probed"
    /\ err = "none"
    /\ neg_cycle # << >>
    /\ \E i \in ExtractionStarts(distance, predecessor, graph, tolerance,
                                 Edges(graph), 1) :
          LET v == Edges(graph)[i][2]
          IN /\ ~OnPredecessorCycle(v)
             /\ \A k \in 0 .. Len(graph) : NthPredecessor(v, k) # None

----------------------------------------------------------------------------
(* Report of a cycle: lab3.py *)

(* self._report_arbitrage(negative_cycle) on the cycle that
   get_negative_cycle returned for the store the graph was built from *)
ReportArbitrage ==
    /\ err = "none"
    /\ pc = "probed"
    /\ neg_cycle # << >>
    /\ curr_value' = ReportArbitrageResult(published_quotes, neg_cycle)
    /\ pc' = "reported"
    /\ UNCHANGED <<err, storeVars, engineVars, codecVars, swept>>

ReportSpecNext ==
    ShortestPaths \/ GetNegativeCycle \/ Reset \/ ReportArbitrage

ReportSpec == EngineSpecInit /\ [][ReportSpecNext]_vars

(* The rate of the pair (X, Y) as stated: the stored rate of (X, Y), else
   one over the stored rate of (Y, X) *)
StatedRate(quotes, X, Y) ==
    IF HasQuote(quotes, X, Y)
    THEN Fraction(DictGet(DictGet(quotes, X), Y).exch_rate, 100)
    ELSE Fraction(100, DictGet(DictGet(quotes, Y), X).exch_rate)

LogRates == {50, 75, 79, 80, 83, 100, 200, 333}

(* exp(-w) for a weight w of the graph, which is -log or log of a rate *)
ExpMinus(w) ==
    IF \E r \in LogRates : -1 * Log(r) = w
    THEN Fraction(CHOOSE r \in LogRates : -1 * Log(r) = w, 100)
    ELSE Fraction(100, CHOOSE r \in LogRates : Log(r) = w)

(* exp(-weight_sum) of the cycle from step idx on *)
RECURSIVE ExpMinusWeightSum(_, _, _)
ExpMinusWeightSum(g, cycle, idx) ==
    IF idx >= Len(cycle) THEN Fraction(1, 1)
    ELSE Product(ExpMinus(Weight(g, cycle[idx], cycle[idx + 1])),
                 ExpMinusWeightSum(g, cycle, idx + 1))

(* C17 as stated: for every adjacent pair of the reported cycle the rate
   _get_exchange_rate gives is the stored rate of the pair or, when the pair
   is not stored, one over the stored rate of the reverse pair; the value
   _report_arbitrage ends with is the notional times exp(-weight_sum) of the
   cycle, and it is greater than the notional. *)
C17_ReportedValue ==
    pc = "reported"
    => /\ \A idx \in 1 .. Len(neg_cycle) - 1 :
             Fraction(GetExchangeRate(published_quotes, neg_cycle[idx],
                                      neg_cycle[idx + 1]), 100)
                = StatedRate(published_quotes, neg_cycle[idx],
                             neg_cycle[idx + 1])
       /\ curr_value
             = Product(Fraction(DEFAULT_START_CURR_VAL, 1),
                       ExpMinusWeightSum(graph, neg_cycle, 1))
       /\ Greater(curr_value, Fraction(DEFAULT_START_CURR_VAL, 1))

----------------------------------------------------------------------------
(* C19: over any sequence of calls of the two store methods, a watermark that
   is set never decreases, every quote in the store has a timestamp at most
   the watermark, and after _clean_stale_quotes with the watermark as its
   reference time every quote in the store is at most STALE_QUOTE_DEF older
   than the watermark. *)
C19_StoreInvariant ==
    [][ /\ latest_timestamp # NoTimestamp
           => latest_timestamp' >= latest_timestamp
        /\ \A e \in Entries(published_quotes') :
              e.timestamp <= latest_timestamp'
        /\ (pc' = "cleaned" /\ curr_time' = latest_timestamp')
           => \A e \in Entries(published_quotes') :
                 latest_timestamp' - e.timestamp <= STALE_QUOTE_DEF ]_vars

(* _clean_stale_quotes has run with the watermark as reference time, after
   the watermark advanced: the quotes of one currency were evicted, a quote
   of another one is kept *)
C19_Witness ==
    /\ pc = "cleaned"
    /\ curr_time = latest_timestamp
    /\ latest_timestamp > STALE_QUOTE_DEF
    /\ \E i \in DOMAIN published_quotes : published_quotes[i][2] = EmptyDict
    /\ Entries(published_quotes) # {}

----------------------------------------------------------------------------
(* C20: the graph built from a quote store has the edge A -> B exactly when
   it has B -> A, and their weights are opposite, so A -> B -> A weighs 0;
   when (A, B) and (B, A) are both stored, the one iterated later gives both
   weights; get_negative_cycle, run with a positive tolerance, never returns
   a cycle A, B, A of two vertices. *)
C20_Antisymmetry ==
    err = "none" =>
       /\ \A A, B \in Currencies :
             /\ HasEdge(graph, A, B) <=> HasEdge(graph, B, A)
             /\ HasEdge(graph, A, B)
                => /\ Weight(graph, A, B) = -1 * Weight(graph, B, A)
                   /\ WeightSum(graph, <<A, B, A>>, 1) = 0
       /\ LET items == Items(published_quotes) IN
          \A i, j \in DOMAIN items :
             (i < j /\ items[j][1] = items[i][2] /\ items[j][2] = items[i][1])
             => /\ Weight(graph, items[j][1], items[j][2])
                      = -1 * Log(items[j][3].exch_rate)
                /\ Weight(graph, items[i][1], items[i][2])
                      = Log(items[j][3].exch_rate)
       /\ (pc = "probed" /\ tolerance > 0) => Len(neg_cycle) # 3

(* get_negative_cycle has run, with a positive tolerance, on a graph built
   from a store that holds (A, B) and (B, A) at rates that are not
   reciprocal, and it returned a cycle *)
C20_Witness ==
    /\ pc = "probed"
    /\ err = "none"
    /\ tolerance > 0
    /\ LET items == Items(published_quotes) IN
       \E i, j \in DOMAIN items :
          /\ i < j
          /\ items[j][1] = items[i][2] /\ items[j][2] = items[i][1]
          /\ Log(items[i][3].exch_rate) # -1 * Log(items[j][3].exch_rate)
    /\ neg_cycle # << >>

----------------------------------------------------------------------------
(* C21: whatever came before it (nothing, a run and reset(), or a run with no
   reset), shortest_paths(start, tolerance) leaves the distance and
   predecessor of every vertex that a run on a fresh engine leaves, and
   get_negative_cycle after it gives what it gives after the run on a fresh
   engine. *)
C21_IndependentOfEarlierRuns ==
    [][ /\ pc' = "relaxed"
           => LET fresh == ShortestPathsResult(EmptyMap, EmptyMap, graph,
                                               start_vertex', tolerance')
              IN /\ distance' = fresh.distance
                 /\ predecessor' = fresh.predecessor
        /\ pc' = "probed"
           => LET fresh == ShortestPathsResult(EmptyMap, EmptyMap, graph,
                                               start_vertex, tolerance)
                  r == GetNegativeCycleResult(fresh.distance,
                                              fresh.predecessor, graph,
                                              tolerance)
              IN /\ neg_cycle' = r.cycle
                 /\ err' = IF r.kind = "return" THEN "none" ELSE r.kind ]_vars

(* A run from one vertex, reset(), then a run from another vertex that left
   other distances and a vertex reached over a third one *)
C21_Witness ==
    /\ pc = "relaxed"
    /\ prev_run.start # None
    /\ prev_run.start # start_vertex
    /\ prev_run.distance # distance
    /\ \E v \in Vertices(graph) :
          /\ prev_run.predecessor[v] # predecessor[v]
          /\ predecessor[v] # None /\ predecessor[v] # start_vertex

====
